---- MODULE Spec2Model ----
(***************************************************************************)
(* A model of app.py, the Streamlit page "Topic Modeling on The Indian     *)
(* Express": the cached dataset loader, the text preprocessor, the search  *)
(* filter, the cached LDA builder, the topic presenter and main().         *)
(*                                                                         *)
(* Python strings are sequences of one-character strings, so that          *)
(* lowercasing, trimming, tokenizing and pattern matching are computed     *)
(* character by character as the code and its libraries compute them.      *)
(***************************************************************************)
EXTENDS Integers, Sequences, FiniteSets, TLC

VARIABLES
    file,             \* the dataset file on disk: "present" or "missing"
    dataset,          \* the rows of indian_express_news_dataset.csv
    load_cache,       \* st.cache_data store of load_data: {} or {frame}
    reads,            \* number of pd.read_csv calls made so far
    lda_cache,        \* st.cache_data store of build_lda_model
    fits,             \* number of LdaModel fits completed so far
    phase,            \* where the last script run (or function call) ended
    query,            \* value of the text input / argument query
    category_filter,  \* value of the select box / argument category_filter
    df,               \* the frame handed to search_articles
    results,          \* the frame search_articles returned
    again,            \* search_articles applied to its own result
    processed_docs,   \* token sequences of the matched articles
    builder_called,   \* build_lda_model was called in the last run
    results_view,     \* "none", "results" or "no_results"
    topics_view,      \* "none", "topics" or "no_content"
    shown_topics,     \* the lines display_topics wrote
    exception,        \* the exception that ended the last run, or "none"
    text,             \* argument of preprocess_text
    tokens,           \* result of preprocess_text
    lda_model,        \* the model build_lda_model returned in the last run
    fitted            \* LdaModel was fitted in the last run

vars == <<file, dataset, load_cache, reads, lda_cache, fits, phase, query,
          category_filter, df, results, again, processed_docs, builder_called,
          results_view, topics_view, shown_topics, exception, text, tokens,
          lda_model, fitted>>

----------------------------------------------------------------------------
(* Bounds of the model.                                                    *)

MaxArticles == 2
MaxQueryLen == 2
MaxTextLen == 3
MaxReads == 2

----------------------------------------------------------------------------
(* Python str operations.                                                  *)

RECURSIVE StringsUpTo(_, _)
StringsUpTo(alphabet, n) ==
    IF n = 0 THEN {<< >>}
    ELSE LET shorter == StringsUpTo(alphabet, n - 1)
         IN  shorter \cup {Append(s, c) : s \in shorter, c \in alphabet}

IsSpace(c) == c = " "

IsLetter(c) == c \in {"a", "b", "c", "e", "f", "g", "z", "A", "B"}

\* str.lower on one character
LowerChar(c) == IF c = "A" THEN "a" ELSE IF c = "B" THEN "b" ELSE c

\* str.lower
lower(s) == [i \in 1..Len(s) |-> LowerChar(s[i])]

\* str.strip: drops leading and trailing whitespace
strip(s) ==
    LET keep == {i \in 1..Len(s) : ~IsSpace(s[i])}
    IN  IF keep = {} THEN << >>
        ELSE LET first == CHOOSE i \in keep : \A j \in keep : i <= j
                 last  == CHOOSE i \in keep : \A j \in keep : j <= i
             IN  SubSeq(s, first, last)

\* str.isalpha: non-empty and every character alphabetic
isalpha(s) == Len(s) > 0 /\ \A i \in 1..Len(s) : IsLetter(s[i])

----------------------------------------------------------------------------
(* pandas Series.str.contains(pat): regex=True by default, so pat is       *)
(* compiled with re and searched for.  Of the regular-expression syntax    *)
(* the model keeps the literal characters, "." (any character but a        *)
(* newline) and an unclosed "(" (re.error: missing ")").                   *)

re_error(pat) == \E i \in 1..Len(pat) : pat[i] = "("

re_match_char(p, c) == p = "." \/ p = c

re_search(pat, s) ==
    \E k \in 0..(Len(s) - Len(pat)) :
        \A j \in 1..Len(pat) : re_match_char(pat[j], s[k + j])

str_contains(s, pat) == re_search(pat, s)

----------------------------------------------------------------------------
(* The Article Collection.                                                 *)

Article(h, c, cat, u) == [headlines |-> h, content |-> c, category |-> cat, url |-> u]

A1 == Article(<<"A", "b">>, <<"b", " ", "c", " ", "e", " ", "f", " ", "g">>, "sports", "u1")

A2 == Article(<<"b", "9">>, <<"a", " ", "9">>, "All", "u2")

A3 == Article(<<"c">>, <<"B", "!", " ", "c">>, "Sports", "u3")

A4 == Article(<<"a", ".">>, <<"z", " ", "b">>, "sports", "u4")

ArticlePool == {A1, A2, A3, A4}

Categories == {"All", "sports", "Sports", "tech"}

RECURSIVE SeqsUpTo(_, _)
SeqsUpTo(S, n) ==
    IF n = 0 THEN {<< >>}
    ELSE LET shorter == SeqsUpTo(S, n - 1)
         IN  shorter \cup {Append(s, x) : s \in shorter, x \in S}

\* pd.read_csv: one row per line of the file, labelled by a RangeIndex from 0
read_csv(rows) ==
    [i \in 1..Len(rows) |->
        [idx |-> i - 1, headlines |-> rows[i].headlines, content |-> rows[i].content,
         category |-> rows[i].category, url |-> rows[i].url]]

RECURSIVE BooleanIndexShifted(_, _)
\* a mask read one position late: row i is kept when the mask of row i + 1 is set
BooleanIndexShifted(frame, mask) ==
    IF frame = << >> THEN << >>
    ELSE LET n    == Len(frame)
             rest == BooleanIndexShifted(SubSeq(frame, 1, n - 1), mask)
         IN  IF n < Len(mask) /\ mask[n + 1] THEN Append(rest, frame[n]) ELSE rest

RECURSIVE BooleanIndex(_, _)
\* df[mask]: the rows whose mask is true, in order, with their labels
BooleanIndex(frame, mask) ==
    IF frame = << >> THEN << >>
    ELSE LET n    == Len(frame)
             rest == BooleanIndex(SubSeq(frame, 1, n - 1), SubSeq(mask, 1, n - 1))
         IN  IF mask[n] THEN Append(rest, frame[n]) ELSE rest

----------------------------------------------------------------------------
(* search_articles(query, category_filter, df)                             *)

\* df['category'] == category_filter
CategoryMask(frame, c) == [i \in 1..Len(frame) |-> frame[i].category = c]

\* headlines.str.lower().str.contains(query) | content.str.lower().str.contains(query)
QueryMask(frame, q) ==
    [i \in 1..Len(frame) |->
        str_contains(lower(frame[i].headlines), q)
            \/ str_contains(lower(frame[i].content), q)]

search_articles(q0, c, frame) ==
    LET q  == lower(strip(q0))
        d1 == IF c # "All" THEN BooleanIndex(frame, CategoryMask(frame, c)) ELSE frame
    IN  IF q # << >>
        THEN IF re_error(q)
             THEN [exc |-> "re.error", df |-> << >>]
             ELSE [exc |-> "none", df |-> BooleanIndex(d1, QueryMask(d1, q))]
        ELSE [exc |-> "none", df |-> d1]

----------------------------------------------------------------------------
(* preprocess_text(text)                                                   *)

\* the NLTK English stopwords that can be spelled with the model's letters
stop_words == {<<"a">>, <<"b", "e">>}

IsPunct(c) == c = "!"

Flush(cur) == IF cur = << >> THEN << >> ELSE <<cur>>

RECURSIVE TokenizeFrom(_, _, _)
TokenizeFrom(s, i, cur) ==
    IF i > Len(s) THEN Flush(cur)
    ELSE IF IsSpace(s[i]) THEN Flush(cur) \o TokenizeFrom(s, i + 1, << >>)
    ELSE IF IsPunct(s[i]) THEN Flush(cur) \o << <<s[i]>> >> \o TokenizeFrom(s, i + 1, << >>)
    ELSE TokenizeFrom(s, i + 1, Append(cur, s[i]))

\* nltk word_tokenize: whitespace separates tokens, "!" is a token of its own,
\* letters and digits that touch stay in one token
word_tokenize(s) == TokenizeFrom(s, 1, << >>)

\* a filter that forgets the stopword test
KeepTokenAlphaOnly(word) == isalpha(word)

\* word.isalpha() and word not in stop_words
KeepToken(word) == isalpha(word) /\ word \notin stop_words

preprocess_text(t) == SelectSeq(word_tokenize(lower(t)), KeepToken)

----------------------------------------------------------------------------
(* build_lda_model(docs, num_topics) and display_topics(lda_model)         *)

NumTopics == 5

NumWords == 5

\* the random states an LDA fit may start from
Seeds == {0, 1}

CharOrder == <<" ", "!", "(", ".", "9", "A", "B", "a", "b", "c", "e", "f", "g", "z">>

CharRank(c) == CHOOSE i \in 1..Len(CharOrder) : CharOrder[i] = c

\* Python's str < str
StrLess(a, b) ==
    \E k \in 1..(Len(b)) :
        /\ \A j \in 1..(k - 1) : j <= Len(a) /\ a[j] = b[j]
        /\ k - 1 <= Len(a)
        /\ (k > Len(a) \/ CharRank(a[k]) < CharRank(b[k]))

RECURSIVE sorted(_)
sorted(S) ==
    IF S = {} THEN << >>
    ELSE LET m == CHOOSE x \in S : \A y \in S \ {x} : StrLess(x, y)
         IN  <<m>> \o sorted(S \ {m})

Range(s) == {s[i] : i \in 1..Len(s)}

RECURSIVE Dictionary(_)
\* corpora.Dictionary(docs): the terms in id order; each document gives its
\* unseen tokens the next ids, in sorted order
Dictionary(docs) ==
    IF docs = << >> THEN << >>
    ELSE LET n     == Len(docs)
             known == Dictionary(SubSeq(docs, 1, n - 1))
         IN  known \o sorted(Range(docs[n]) \ Range(known))

\* dictionary.doc2bow(doc): the (term id, count) pairs of a document
doc2bow(id2word, doc) ==
    {<<i - 1, Cardinality({k \in 1..Len(doc) : doc[k] = id2word[i]})>> :
        i \in {j \in 1..Len(id2word) : id2word[j] \in Range(doc)}}

\* LdaModel(corpus, id2word, num_topics, passes=10), started from random state seed
LdaModel(corpus, id2word, num_topics, seed) ==
    IF Len(id2word) = 0
    THEN [exc |-> "ValueError", model |-> [num_topics |-> 0, id2word |-> << >>, seed |-> 0]]
    ELSE [exc |-> "none",
          model |-> [num_topics |-> num_topics, id2word |-> id2word, seed |-> seed]]

\* the body of build_lda_model, run on a cache miss
build_lda_model(docs, num_topics, seed) ==
    LET dictionary == Dictionary(docs)
        corpus     == [i \in 1..Len(docs) |-> doc2bow(dictionary, docs[i])]
    IN  LdaModel(corpus, dictionary, num_topics, seed)

NoModel == [num_topics |-> 0, id2word |-> << >>, seed |-> 0]

\* a store looked up without regard to the arguments of the call
CacheEntriesAnyKey(cache, docs, num_topics) == cache

\* @st.cache_data: the stored results of the calls made with these arguments
CacheEntries(cache, docs, num_topics) ==
    {e \in cache : e.docs = docs /\ e.num_topics = num_topics}

Min(a, b) == IF a < b THEN a ELSE b

\* the ids of the num_words heaviest terms of a topic, heaviest first; the
\* weights come from the fit's random state
get_topic_terms(model, topicid, num_words) ==
    LET n == Len(model.id2word)
    IN  [j \in 1..Min(num_words, n) |-> (model.seed + topicid + j - 1) % n]

\* lda_model.print_topics(num_words): every topic, since num_topics <= 20
print_topics(model, num_words) ==
    [i \in 1..model.num_topics |->
        LET ids == get_topic_terms(model, i - 1, num_words)
        IN  [id |-> i - 1, terms |-> [j \in 1..Len(ids) |-> model.id2word[ids[j] + 1]]]]

\* labels that keep print_topics' 0-based topic ids
display_topics_zero_based(model) ==
    LET topics == print_topics(model, NumWords)
    IN  [i \in 1..Len(topics) |-> [label |-> topics[i].id, terms |-> topics[i].terms]]

\* display_topics(lda_model): one line "Topic idx + 1: ..." per topic
display_topics(model) ==
    LET topics == print_topics(model, NumWords)
    IN  [i \in 1..Len(topics) |-> [label |-> topics[i].id + 1, terms |-> topics[i].terms]]

----------------------------------------------------------------------------
(* Inputs.                                                                 *)

QueryAlphabet == {"B", "z", " ", ".", "("}

Queries == StringsUpTo(QueryAlphabet, MaxQueryLen)

TextAlphabet == {"a", "B", "e", "9", " ", "!"}

Texts == StringsUpTo(TextAlphabet, MaxTextLen)

Datasets == SeqsUpTo(ArticlePool, MaxArticles)

\* what the search box holds when the page is run
TypedQueries == {<< >>, <<" ", "B">>, <<"z">>, <<"9">>, <<"(">>}

\* the dataset files the page is run on
DatasetFiles == {<<A1, A4>>, <<A2, A3>>}

----------------------------------------------------------------------------
(* main(): one run of the script.                                          *)

\* a loader without its cache decorator
load_data_uncached == FALSE

\* @st.cache_data on load_data: a stored result is returned without a call
load_data_cached == load_cache # {}

\* df = load_data(), when it returns
LoadedFrame == IF load_data_cached THEN CHOOSE f \in load_cache : TRUE ELSE read_csv(dataset)

CacheAfterLoad == IF load_data_cached THEN load_cache ELSE {read_csv(dataset)}

ReadsAfterLoad == IF load_data_cached THEN reads ELSE reads + 1

\* pd.read_csv finds the file, or is not called at all
CanLoad == load_data_cached \/ (file = "present" /\ reads < MaxReads)

\* ["All"] + sorted(df['category'].unique().tolist())
categories(frame) == {"All"} \cup {frame[i].category : i \in 1..Len(frame)}

\* a search that writes its result over the stored collection
CollectionOverwritten(cache, res) == {res}

\* search_articles binds its result to a new name: the stored collection is not written
CollectionAfterSearch(cache, res) == cache

\* a guard that lets every document list through
ShouldBuildAlways(docs) == TRUE

\* if processed_docs:
ShouldBuild(docs) == docs # << >>

\* lines 155-181: what a click on Search computes from the loaded frame
Pipeline(q, c, frame, cache, seed) ==
    LET r    == search_articles(q, c, frame)
        docs == [i \in 1..Len(r.df) |-> preprocess_text(r.df[i].content)]
        hits == CacheEntries(cache, docs, NumTopics)
        b    == build_lda_model(docs, NumTopics, seed)
        base == [exception |-> "none", results |-> r.df,
                 results_view |-> IF r.df # << >> THEN "results" ELSE "no_results",
                 processed_docs |-> docs, builder_called |-> FALSE,
                 topics_view |-> "none", shown_topics |-> << >>,
                 lda_model |-> NoModel, lda_cache |-> cache, fitted |-> FALSE]
    IN  IF r.exc # "none"
        THEN [base EXCEPT !.exception = r.exc, !.results_view = "none",
                          !.processed_docs = << >>]
        ELSE IF ~ShouldBuild(docs)
        THEN [base EXCEPT !.topics_view = "no_content"]
        ELSE IF hits # {}
        THEN LET e == CHOOSE x \in hits : TRUE
             IN  [base EXCEPT !.builder_called = TRUE, !.topics_view = "topics",
                              !.lda_model = e.value,
                              !.shown_topics = display_topics(e.value)]
        ELSE IF b.exc # "none"
        THEN [base EXCEPT !.builder_called = TRUE, !.exception = b.exc]
        ELSE [base EXCEPT !.builder_called = TRUE, !.topics_view = "topics",
                          !.lda_model = b.model,
                          !.shown_topics = display_topics(b.model),
                          !.lda_cache = cache \cup {[docs |-> docs, num_topics |-> NumTopics,
                                                     value |-> b.model]},
                          !.fitted = TRUE]

\* load_data raises: the run ends at line 143 and nothing below it is drawn
LoadFails ==
    /\ ~load_data_cached
    /\ file = "missing"
    /\ reads < MaxReads
    /\ reads' = reads + 1
    /\ exception' = "FileNotFoundError"
    /\ phase' = "load_failed"
    /\ query' = << >>
    /\ category_filter' = "All"
    /\ df' = << >>
    /\ results' = << >>
    /\ processed_docs' = << >>
    /\ builder_called' = FALSE
    /\ results_view' = "none"
    /\ topics_view' = "none"
    /\ shown_topics' = << >>
    /\ lda_model' = NoModel
    /\ fitted' = FALSE
    /\ UNCHANGED <<file, dataset, load_cache, lda_cache, fits, again, text, tokens>>

\* a run in which st.button("Search") is False: the widgets are drawn, no search
Rerun(q, c) ==
    /\ CanLoad
    /\ c \in categories(LoadedFrame)
    /\ load_cache' = CacheAfterLoad
    /\ reads' = ReadsAfterLoad
    /\ exception' = "none"
    /\ phase' = "idle"
    /\ query' = q
    /\ category_filter' = c
    /\ df' = LoadedFrame
    /\ results' = << >>
    /\ processed_docs' = << >>
    /\ builder_called' = FALSE
    /\ results_view' = "none"
    /\ topics_view' = "none"
    /\ shown_topics' = << >>
    /\ lda_model' = NoModel
    /\ fitted' = FALSE
    /\ UNCHANGED <<file, dataset, lda_cache, fits, again, text, tokens>>

\* a run in which st.button("Search") is True
ClickSearch(q, c, seed) ==
    /\ CanLoad
    /\ c \in categories(LoadedFrame)
    /\ LET out == Pipeline(q, c, LoadedFrame, lda_cache, seed)
       IN  /\ load_cache' = CollectionAfterSearch(CacheAfterLoad, out.results)
           /\ exception' = out.exception
           /\ results' = out.results
           /\ processed_docs' = out.processed_docs
           /\ builder_called' = out.builder_called
           /\ results_view' = out.results_view
           /\ topics_view' = out.topics_view
           /\ shown_topics' = out.shown_topics
           /\ lda_model' = out.lda_model
           /\ lda_cache' = out.lda_cache
           /\ fitted' = out.fitted
           /\ fits' = IF out.fitted THEN fits + 1 ELSE fits
    /\ reads' = ReadsAfterLoad
    /\ phase' = "searched"
    /\ query' = q
    /\ category_filter' = c
    /\ df' = LoadedFrame
    /\ UNCHANGED <<file, dataset, again, text, tokens>>

\* the dataset file is deleted or moved away
FileRemoved ==
    /\ file = "present"
    /\ file' = "missing"
    /\ UNCHANGED <<dataset, load_cache, reads, lda_cache, fits, phase, query,
                   category_filter, df, results, again, processed_docs, builder_called,
                   results_view, topics_view, shown_topics, exception, text, tokens,
                   lda_model, fitted>>

\* the dataset file is put in place
FileRestored ==
    /\ file = "missing"
    /\ file' = "present"
    /\ UNCHANGED <<dataset, load_cache, reads, lda_cache, fits, phase, query,
                   category_filter, df, results, again, processed_docs, builder_called,
                   results_view, topics_view, shown_topics, exception, text, tokens,
                   lda_model, fitted>>

\* the state of a process that has run nothing yet
Blank ==
    /\ load_cache = {}
    /\ reads = 0
    /\ lda_cache = {}
    /\ fits = 0
    /\ phase = "start"
    /\ query = << >>
    /\ category_filter = "All"
    /\ results = << >>
    /\ again = << >>
    /\ processed_docs = << >>
    /\ builder_called = FALSE
    /\ results_view = "none"
    /\ topics_view = "none"
    /\ shown_topics = << >>
    /\ exception = "none"
    /\ tokens = << >>
    /\ lda_model = NoModel
    /\ fitted = FALSE

Init ==
    /\ Blank
    /\ file \in {"present", "missing"}
    /\ dataset \in DatasetFiles
    /\ df = << >>
    /\ text = << >>

Next ==
    \/ LoadFails
    \/ \E q \in TypedQueries, c \in Categories : Rerun(q, c)
    \/ \E q \in TypedQueries, c \in Categories, seed \in Seeds : ClickSearch(q, c, seed)
    \/ FileRemoved
    \/ FileRestored

Spec == Init /\ [][Next]_vars

----------------------------------------------------------------------------
(* search_articles called on its own: any frame, query and category.       *)

InitSearch ==
    /\ Blank
    /\ file = "present"
    /\ dataset = << >>
    /\ df \in {read_csv(rows) : rows \in Datasets}
    /\ text = << >>

CallSearch(q, c) ==
    /\ phase = "start"
    /\ LET r == search_articles(q, c, df)
       IN  /\ results' = r.df
           /\ exception' = r.exc
    /\ query' = q
    /\ category_filter' = c
    /\ phase' = "searched"
    /\ UNCHANGED <<file, dataset, load_cache, reads, lda_cache, fits, df, again,
                   processed_docs, builder_called, results_view, topics_view,
                   shown_topics, text, tokens, lda_model, fitted>>

\* the same query and category applied to what the first call returned
CallSearchAgain ==
    /\ phase = "searched"
    /\ exception = "none"
    /\ LET r == search_articles(query, category_filter, results)
       IN  /\ again' = r.df
           /\ exception' = r.exc
    /\ phase' = "refiltered"
    /\ UNCHANGED <<file, dataset, load_cache, reads, lda_cache, fits, query,
                   category_filter, df, results, processed_docs, builder_called,
                   results_view, topics_view, shown_topics, text, tokens, lda_model, fitted>>

NextSearch ==
    \/ \E q \in Queries, c \in Categories : CallSearch(q, c)
    \/ CallSearchAgain

SpecSearch == InitSearch /\ [][NextSearch]_vars

----------------------------------------------------------------------------
(* preprocess_text called on its own.                                      *)

InitPreprocess ==
    /\ Blank
    /\ file = "present"
    /\ dataset = << >>
    /\ df = << >>
    /\ text \in Texts

CallPreprocess ==
    /\ phase = "start"
    /\ tokens' = preprocess_text(text)
    /\ phase' = "preprocessed"
    /\ UNCHANGED <<file, dataset, load_cache, reads, lda_cache, fits, query,
                   category_filter, df, results, again, processed_docs, builder_called,
                   results_view, topics_view, shown_topics, exception, text, lda_model,
                   fitted>>

NextPreprocess == CallPreprocess

SpecPreprocess == InitPreprocess /\ [][NextPreprocess]_vars

----------------------------------------------------------------------------
(* Properties.                                                             *)

\* Python's `sub in s`: sub occurs in s character for character
IsSubstring(sub, s) ==
    \E k \in 0..(Len(s) - Len(sub)) :
        \A j \in 1..Len(sub) : s[k + j] = sub[j]

StatedMatch(q0, c, row) ==
    /\ c = "All" \/ row.category = c
    /\ \/ strip(q0) = << >>
       \/ IsSubstring(lower(strip(q0)), lower(row.headlines))
       \/ IsSubstring(lower(strip(q0)), lower(row.content))

\* C1: whenever search_articles returns, it returns exactly the rows whose
\* category passes the filter ("All" or equal) and whose lowercased headline
\* or content holds the trimmed, lowercased query as a literal substring (or
\* the trimmed query is empty), in their original order.
C1_ReturnsLiteralSubstringMatches ==
    (phase \in {"searched", "refiltered"} /\ exception = "none") =>
        results = SelectSeq(df, LAMBDA row : StatedMatch(query, category_filter, row))

CategoriesIn(frame) == {frame[i].category : i \in 1..Len(frame)}

LabelsOf(frame) == {frame[i].idx : i \in 1..Len(frame)}

ByCategory(frame, c) == search_articles(<< >>, c, frame).df

\* C2: with an empty query, a filter c that occurs in the collection returns
\* only rows of category c; the results over the occurring categories are
\* pairwise disjoint and together hold every row; "All" returns the collection.
C2_CategoriesPartitionCollection ==
    (phase = "searched" /\ strip(query) = << >>) =>
        /\ category_filter \in CategoriesIn(df) =>
               \A i \in 1..Len(results) : results[i].category = category_filter
        /\ \A c1, c2 \in CategoriesIn(df) :
               c1 # c2 => LabelsOf(ByCategory(df, c1)) \cap LabelsOf(ByCategory(df, c2)) = {}
        /\ UNION {LabelsOf(ByCategory(df, c)) : c \in CategoriesIn(df)} = LabelsOf(df)
        /\ category_filter = "All" => results = df

\* C3: filtering the result of a search again with the same query and
\* category returns the same rows in the same order.
C3_FilterIdempotent ==
    phase = "refiltered" => (exception = "none" /\ again = results)

C3_Witness ==
    /\ phase = "refiltered"
    /\ strip(query) # << >>
    /\ category_filter # "All"
    /\ results # << >>
    /\ Len(results) < Len(df)

\* C4: a search that matches no article never calls build_lda_model and gets
\* no model; it ends showing "no results" and "no content available"; the
\* builder is called only when the matched set is non-empty, and no stored
\* model was built from an empty document list.
C4_NoBuildWithoutMatches ==
    /\ (phase = "searched" /\ exception = "none" /\ results = << >>) =>
           /\ ~builder_called
           /\ ~fitted
           /\ lda_model = NoModel
           /\ results_view = "no_results"
           /\ topics_view = "no_content"
    /\ builder_called => results # << >>
    /\ \A e \in lda_cache : e.docs # << >>

C4_Witness ==
    /\ phase = "searched"
    /\ exception = "none"
    /\ results = << >>
    /\ topics_view = "no_content"
    /\ lda_cache # {}

\* C5: every search action ends with results and topics drawn, or in the
\* "no results" / "no content" states: never with an exception.
C5_SearchNeverRaises ==
    phase = "searched" =>
        /\ exception = "none"
        /\ \/ (results_view = "results" /\ topics_view = "topics")
           \/ (results_view = "no_results" /\ topics_view = "no_content")

\* C6 as stated: every search whose matched set is non-empty (and that ends
\* without an exception) fits a model of its own.
C6_EverySearchFits ==
    (phase = "searched" /\ exception = "none" /\ results # << >>) => fitted

\* C6 as amended: one fit per distinct list of token sequences: the store
\* holds one model per list and as many models as fits were completed; the
\* model a search displays is the stored model of its own token sequences,
\* with the dictionary of those sequences; a search that did not fit got it
\* from the store.
C6_OneFitPerDocumentList ==
    /\ fits = Cardinality(lda_cache)
    /\ \A e1, e2 \in lda_cache : e1.docs = e2.docs => e1 = e2
    /\ (phase = "searched" /\ topics_view = "topics") =>
           /\ [docs |-> processed_docs, num_topics |-> NumTopics, value |-> lda_model]
                  \in lda_cache
           /\ lda_model.id2word = Dictionary(processed_docs)
    /\ fitted => (builder_called /\ topics_view = "topics")

C6_Witness ==
    /\ phase = "searched"
    /\ results # << >>
    /\ topics_view = "topics"
    /\ ~fitted
    /\ fits >= 2

\* C7 as stated: the dataset file is read at most once.
C7_ReadAtMostOnce == reads <= 1

\* C7 as amended: once a read has succeeded the collection is stored and no
\* later run reads the file or changes the stored collection; a failed read
\* stores nothing, ends the run before any search, and is tried again by the
\* next run.
C7_NoReadAfterSuccess ==
    /\ [](Cardinality(load_cache) <= 1)
    /\ [](phase = "load_failed" =>
            /\ exception = "FileNotFoundError"
            /\ load_cache = {}
            /\ results_view = "none"
            /\ topics_view = "none"
            /\ ~builder_called)
    /\ [][load_cache # {} => (reads' = reads /\ load_cache' = load_cache)]_vars
    /\ [][reads' # reads =>
            (reads' = reads + 1 /\ (load_cache' # {} \/ phase' = "load_failed"))]_vars

C7_Witness ==
    /\ phase = "searched"
    /\ load_cache # {}
    /\ reads = 2
    /\ fits >= 2

MatchedDocs == [i \in 1..Len(results) |-> preprocess_text(results[i].content)]

\* C9 as stated: a search with a non-empty matched set (that ends without an
\* exception) shows 5 topics, Topic 1 to Topic 5, of exactly 5 terms each, all
\* from the dictionary of the matched articles' content.
C9_FiveTopicsOfFiveTerms ==
    (phase = "searched" /\ exception = "none" /\ results # << >>) =>
        /\ Len(shown_topics) = 5
        /\ \A i \in 1..Len(shown_topics) :
               /\ shown_topics[i].label = i
               /\ Len(shown_topics[i].terms) = 5
               /\ Range(shown_topics[i].terms) \subseteq Range(Dictionary(MatchedDocs))

\* C9 as amended: a search with a non-empty matched set shows nothing when
\* the fit raised on an empty dictionary, and otherwise 5 topics, Topic 1 to
\* Topic 5, each of min(5, size of the dictionary) distinct terms of the
\* dictionary of the matched articles' content.
C9_FiveTopicsOfAtMostFiveTerms ==
    (phase = "searched" /\ results # << >>) =>
        IF exception # "none"
        THEN /\ exception = "ValueError"
             /\ Dictionary(MatchedDocs) = << >>
             /\ shown_topics = << >>
        ELSE /\ Len(shown_topics) = 5
             /\ \A i \in 1..Len(shown_topics) :
                    /\ shown_topics[i].label = i
                    /\ Len(shown_topics[i].terms) = Min(5, Len(Dictionary(MatchedDocs)))
                    /\ Cardinality(Range(shown_topics[i].terms)) = Len(shown_topics[i].terms)
                    /\ Range(shown_topics[i].terms) \subseteq Range(Dictionary(MatchedDocs))

C9_Witness ==
    /\ phase = "searched"
    /\ results # << >>
    /\ topics_view = "topics"
    /\ Len(shown_topics) = 5
    /\ Len(lda_model.id2word) < 5

\* C10: the stored collection is the collection as read from the file, whatever
\* searches have run, and every run filters that full collection.
C10_CollectionNotMutated ==
    /\ load_cache \subseteq {read_csv(dataset)}
    /\ phase \in {"idle", "searched"} => (load_cache # {} /\ df = read_csv(dataset))

C10_Witness ==
    /\ phase = "searched"
    /\ results # << >>
    /\ Len(results) < Len(df)
    /\ fits >= 2
    /\ load_cache = {read_csv(dataset)}

TokensOf(t) == word_tokenize(lower(t))

Surviving(t) == {i \in 1..Len(TokensOf(t)) : isalpha(TokensOf(t)[i]) /\ TokensOf(t)[i] \notin stop_words}

NthOf(S, k) == CHOOSE i \in S : Cardinality({j \in S : j <= i}) = k

\* C8: preprocess_text returns, in order, exactly the tokens of the lowercased
\* input that are alphabetic and no stopword; the empty string gives no token.
C8_KeepsAlphabeticNonStopwords ==
    phase = "preprocessed" =>
        /\ Len(tokens) = Cardinality(Surviving(text))
        /\ \A k \in 1..Len(tokens) : tokens[k] = TokensOf(text)[NthOf(Surviving(text), k)]
        /\ \A k \in 1..Len(tokens) : isalpha(tokens[k]) /\ tokens[k] \notin stop_words
        /\ text = << >> => tokens = << >>

C8_Witness ==
    /\ phase = "preprocessed"
    /\ tokens # << >>
    /\ \E i \in 1..Len(TokensOf(text)) : TokensOf(text)[i] \in stop_words
    /\ \E i \in 1..Len(TokensOf(text)) : ~isalpha(TokensOf(text)[i])

====
